---- MODULE Spec2Model ----
(***************************************************************************)
(* Model of the face-looker pipeline: optimize.py (the atlas packer) and   *)
(* main.py (the frame generator).  File names are sequences of one         *)
(* character strings; the packer's run is a state machine over the lines   *)
(* of optimize.main, the generator's loop one over main.generate_frames.   *)
(***************************************************************************)
EXTENDS Integers, Sequences, FiniteSets, TLC

VARIABLES
    pc,         \* position of the pack run in optimize.main
    args,       \* parsed command line: step, max_width, tile_width
    outDir,     \* names of the files in ./out
    viewer0,    \* state of ./viewer when the run started
    viewer,     \* state of ./viewer: atlas file and manifest file
    groups,     \* prefix -> (angle -> file name)
    base,       \* (base_w, base_h)
    flat,       \* flat_paths
    sections,   \* sections
    warnings,   \* the "[warn] missing frame" lines, in order
    frameCount, \* len(normalized)
    plan,       \* target_w, target_h, columns, rows
    manifest,   \* the manifest value built by the run
    exitCode,   \* process exit status, -1 while running
    err,        \* what ended the run
    inDir,      \* names of the files in ./in
    gpc,        \* position of generate_frames
    infiles,    \* input_files of generate_frames
    gangles,    \* angles of generate_frames
    gi,         \* index of the current input file
    gj,         \* index of the current angle
    glog        \* what generate_frames did for each (input, angle) it visited

vars == <<pc, args, outDir, viewer0, viewer, groups, base, flat, sections,
          warnings, frameCount, plan, manifest, exitCode, err,
          inDir, gpc, infiles, gangles, gi, gj, glog>>

(***************************************************************************)
(* Strings                                                                 *)
(***************************************************************************)

\* Code points of the characters used in file names (Python compares
\* strings by code point).
Ord(c) ==
    CASE c = " " -> 32 [] c = "+" -> 43 [] c = "-" -> 45 [] c = "." -> 46
      [] c = "0" -> 48 [] c = "1" -> 49 [] c = "2" -> 50 [] c = "3" -> 51
      [] c = "4" -> 52 [] c = "5" -> 53 [] c = "6" -> 54 [] c = "7" -> 55
      [] c = "8" -> 56 [] c = "9" -> 57
      [] c = "B" -> 66 [] c = "_" -> 95
      [] c = "a" -> 97 [] c = "b" -> 98 [] c = "c" -> 99 [] c = "e" -> 101
      [] c = "f" -> 102 [] c = "g" -> 103 [] c = "j" -> 106 [] c = "m" -> 109
      [] c = "n" -> 110 [] c = "p" -> 112 [] c = "x" -> 120 [] c = "y" -> 121
      [] c = "z" -> 122

Digits == {"0", "1", "2", "3", "4", "5", "6", "7", "8", "9"}

DigitVal(c) == Ord(c) - 48

DigitChar(d) == CHOOSE c \in Digits : DigitVal(c) = d

\* str < str in Python: lexicographic by code point, a proper prefix first.
RECURSIVE StrLess(_, _)
StrLess(s, t) ==
    IF t = <<>> THEN FALSE
    ELSE IF s = <<>> THEN TRUE
    ELSE IF Ord(Head(s)) # Ord(Head(t)) THEN Ord(Head(s)) < Ord(Head(t))
    ELSE StrLess(Tail(s), Tail(t))

StartsWith(s, pre) ==
    /\ Len(pre) <= Len(s)
    /\ SubSeq(s, 1, Len(pre)) = pre

EndsWith(s, suf) ==
    /\ Len(suf) <= Len(s)
    /\ SubSeq(s, Len(s) - Len(suf) + 1, Len(s)) = suf

Contains(s, c) == \E i \in 1..Len(s) : s[i] = c

\* str.rfind(c), 1-based; 0 when absent.
RFind(s, c) ==
    IF Contains(s, c)
    THEN CHOOSE i \in 1..Len(s) : s[i] = c /\ \A k \in (i+1)..Len(s) : s[k] # c
    ELSE 0

\* str.lower() on the characters used here.
LowerChar(c) == IF c = "B" THEN "b" ELSE c

Lower(s) == [i \in 1..Len(s) |-> LowerChar(s[i])]

\* PurePath.suffix: from the last dot, unless that dot starts or ends the name.
Suffix(name) ==
    LET i == RFind(name, ".")
    IN  IF 1 < i /\ i < Len(name) THEN SubSeq(name, i, Len(name)) ELSE <<>>

\* PurePath.stem: the name without its suffix.
Stem(name) ==
    LET i == RFind(name, ".")
    IN  IF 1 < i /\ i < Len(name) THEN SubSeq(name, 1, i - 1) ELSE name

DotJpg == <<".", "j", "p", "g">>

\* OUT_DIR.glob("*.jpg")
GlobJpg(name) == EndsWith(name, DotJpg)

\* str.strip() of blanks.
RECURSIVE LStrip(_)
LStrip(s) == IF s # <<>> /\ Head(s) = " " THEN LStrip(Tail(s)) ELSE s

RECURSIVE RStrip(_)
RStrip(s) ==
    IF s # <<>> /\ s[Len(s)] = " " THEN RStrip(SubSeq(s, 1, Len(s) - 1)) ELSE s

RECURSIVE DigitsValue(_, _)
DigitsValue(s, acc) ==
    IF s = <<>> THEN acc ELSE DigitsValue(Tail(s), 10 * acc + DigitVal(Head(s)))

\* int(s): blanks around, an optional sign, then one or more digits;
\* anything else raises ValueError (ok = FALSE).
ParseInt(s) ==
    LET t      == RStrip(LStrip(s))
        signed == t # <<>> /\ Head(t) \in {"+", "-"}
        d      == IF signed THEN Tail(t) ELSE t
        good   == d # <<>> /\ \A i \in 1..Len(d) : d[i] \in Digits
        v      == IF good THEN DigitsValue(d, 0) ELSE 0
    IN  [ok |-> good,
         val |-> IF signed /\ Head(t) = "-" THEN 0 - v ELSE v]

\* str(n) for n >= 0, as the f-string formats it.
RECURSIVE IntToStr(_)
IntToStr(n) ==
    IF n < 10 THEN <<DigitChar(n)>>
    ELSE Append(IntToStr(n \div 10), DigitChar(n % 10))

\* sorted(...) of a set of names.
RECURSIVE SortNames(_)
SortNames(S) ==
    IF S = {} THEN <<>>
    ELSE LET m == CHOOSE x \in S : \A y \in S \ {x} : StrLess(x, y)
         IN  <<m>> \o SortNames(S \ {m})

(***************************************************************************)
(* optimize.py: discovery                                                  *)
(***************************************************************************)

\* angles = list(range(0, 360, step))
RECURSIVE RangeFrom(_, _)
RangeFrom(a, step) == IF a >= 360 THEN <<>> ELSE <<a>> \o RangeFrom(a + step, step)

Angles(step) == RangeFrom(0, step)

SeqToSet(s) == {s[i] : i \in 1..Len(s)}

\* One pass of the discovery loop body on a file name: the (prefix, angle)
\* it stands for, or ok = FALSE when the loop skips it.
ParseName(file) ==
    LET name == Stem(file)
        k    == RFind(name, "_")
        n    == ParseInt(SubSeq(name, k + 1, Len(name)))
    IN  IF k = 0 THEN [ok |-> FALSE, prefix |-> <<>>, angle |-> 0]
        ELSE [ok |-> n.ok, prefix |-> SubSeq(name, 1, k - 1), angle |-> n.val]

\* groups.setdefault(prefix, {}).setdefault(angle, p)
SetDefault(g, prefix, angle, p) ==
    LET inner == IF prefix \in DOMAIN g THEN g[prefix] ELSE <<>>
        added == IF angle \in DOMAIN inner THEN inner
                 ELSE [a \in DOMAIN inner \cup {angle} |->
                          IF a = angle THEN p ELSE inner[a]]
    IN  [q \in DOMAIN g \cup {prefix} |-> IF q = prefix THEN added ELSE g[q]]

RECURSIVE DiscoverFrom(_, _, _)
DiscoverFrom(files, angles, g) ==
    IF files = <<>> THEN g
    ELSE LET r == ParseName(Head(files))
         IN  IF r.ok /\ r.angle \in SeqToSet(angles)
             THEN DiscoverFrom(Tail(files), angles,
                               SetDefault(g, r.prefix, r.angle, Head(files)))
             ELSE DiscoverFrom(Tail(files), angles, g)

\* The groups dictionary after the discovery loop over sorted(glob("*.jpg")).
DiscoverGroups(dir, step) ==
    DiscoverFrom(SortNames({f \in dir : GlobJpg(f)}), Angles(step), <<>>)

(***************************************************************************)
(* optimize.py: section order and the flat frame list                      *)
(***************************************************************************)

MY_FACE == <<"m", "y", "_", "f", "a", "c", "e">>

\* A variant of section_sort_key that forgets the "my_face" special cases.
section_sort_key_plain(prefix) == [rank |-> 2, name |-> prefix]

\* section_sort_key: (0, ""), (1, prefix) or (2, prefix).
section_sort_key(prefix) ==
    IF prefix = MY_FACE THEN [rank |-> 0, name |-> <<>>]
    ELSE IF StartsWith(prefix, MY_FACE \o <<"_">>) THEN [rank |-> 1, name |-> prefix]
    ELSE [rank |-> 2, name |-> prefix]

\* Tuple comparison of two sort keys.
KeyLess(k1, k2) ==
    \/ k1.rank < k2.rank
    \/ k1.rank = k2.rank /\ StrLess(k1.name, k2.name)

\* ordered_prefixes = sorted(groups.keys(), key=section_sort_key)
RECURSIVE SortPrefixes(_)
SortPrefixes(S) ==
    IF S = {} THEN <<>>
    ELSE LET m == CHOOSE x \in S :
                      \A y \in S \ {x} :
                          KeyLess(section_sort_key(x), section_sort_key(y))
         IN  <<m>> \o SortPrefixes(S \ {m})

OrderedPrefixes(g) == SortPrefixes(DOMAIN g)

\* The first (prefix, angle) that has a file, in section then angle order.
RECURSIVE FirstPathIn(_, _, _)
FirstPathIn(prefixes, angles, g) ==
    IF prefixes = <<>> THEN <<>>
    ELSE LET here == {i \in 1..Len(angles) : angles[i] \in DOMAIN g[Head(prefixes)]}
         IN  IF here # {}
             THEN g[Head(prefixes)][angles[CHOOSE i \in here : \A k \in here : i <= k]]
             ELSE FirstPathIn(Tail(prefixes), angles, g)

\* A variant of the inner loop body that counts the angle before it looks
\* for the file.
CollectAngleCountFirst(acc, prefix, a, g) ==
    IF a \notin DOMAIN g[prefix]
    THEN [acc EXCEPT !.warns = Append(@, <<prefix, a>>), !.count = @ + 1]
    ELSE [acc EXCEPT !.paths = Append(@, g[prefix][a]), !.count = @ + 1]

\* The body of "for a in angles" for one section.
CollectAngle(acc, prefix, a, g) ==
    IF a \notin DOMAIN g[prefix]
    THEN [acc EXCEPT !.warns = Append(@, <<prefix, a>>)]
    ELSE [acc EXCEPT !.paths = Append(@, g[prefix][a]), !.count = @ + 1]

RECURSIVE CollectAngles(_, _, _, _)
CollectAngles(acc, prefix, angles, g) ==
    IF angles = <<>> THEN acc
    ELSE CollectAngles(CollectAngle(acc, prefix, Head(angles), g),
                       prefix, Tail(angles), g)

\* A variant of start_index that numbers sections as if none missed a frame.
StartIndexFull(flat_paths, nsections, nangles) == nsections * nangles

\* start_index = len(flat_paths)
StartIndex(flat_paths, nsections, nangles) == Len(flat_paths)

\* The body of "for prefix in ordered_prefixes".
CollectSection(acc, prefix, angles, g) ==
    LET start == StartIndex(acc.paths, Len(acc.sections), Len(angles))
        got   == CollectAngles([acc EXCEPT !.count = 0], prefix, angles, g)
    IN  IF got.count > 0
        THEN [got EXCEPT !.sections =
                 Append(@, [name |-> prefix, startIndex |-> start,
                            frameCount |-> got.count])]
        ELSE got

RECURSIVE CollectSections(_, _, _, _)
CollectSections(acc, prefixes, angles, g) ==
    IF prefixes = <<>> THEN acc
    ELSE CollectSections(CollectSection(acc, Head(prefixes), angles, g),
                         Tail(prefixes), angles, g)

\* flat_paths, sections and the warnings after the collection loop.
Collected(g, step) ==
    CollectSections([paths |-> <<>>, sections |-> <<>>, warns |-> <<>>, count |-> 0],
                    OrderedPrefixes(g), Angles(step), g)

\* display_name
display_name(prefix) ==
    IF prefix = MY_FACE THEN <<"d", "e", "f", "a", "u", "l", "t">>
    ELSE IF StartsWith(prefix, MY_FACE \o <<"_">>)
         THEN SubSeq(prefix, Len(MY_FACE) + 2, Len(prefix))
    ELSE prefix

(***************************************************************************)
(* optimize.py: the layout plan                                            *)
(***************************************************************************)

Max(a, b) == IF a >= b THEN a ELSE b
Min(a, b) == IF a <= b THEN a ELSE b

\* int(round(num / den)) for num >= 0, den > 0: round half to even.
RoundDiv(num, den) ==
    LET q == num \div den
        r == num % den
    IN  IF 2 * r < den THEN q
        ELSE IF 2 * r > den THEN q + 1
        ELSE IF q % 2 = 0 THEN q ELSE q + 1

\* int(round(math.sqrt(num / den))) for num >= 0, den > 0.
RoundSqrt(num, den) ==
    LET up == {k \in 1..(num + 1) : (2 * k - 1) * (2 * k - 1) * den <= 4 * num}
        k0 == IF up = {} THEN 0 ELSE CHOOSE k \in up : \A m \in up : m <= k
    IN  IF k0 > 0 /\ (2 * k0 - 1) * (2 * k0 - 1) * den = 4 * num /\ k0 % 2 = 1
        THEN k0 - 1
        ELSE k0

\* target_w, target_h (lines 122-131).
TargetSize(base_w, base_h, a) ==
    IF a.has_tile
    THEN IF base_w > a.tile_width
         THEN <<a.tile_width, RoundDiv(base_h * a.tile_width, base_w)>>
         ELSE <<base_w, base_h>>
    ELSE IF base_w > a.max_width
         THEN <<a.max_width, RoundDiv(base_h * a.max_width, base_w)>>
         ELSE <<base_w, base_h>>

\* A variant of the clamp that forgets the upper end.
ClampColumnsLow(n, ideal) == Max(1, ideal)

\* ideal_cols = max(1, min(len(normalized), ideal_cols))
ClampColumns(n, ideal) == Max(1, Min(n, ideal))

IdealColumns(n, target_w, target_h) ==
    ClampColumns(n, RoundSqrt(n * target_h, target_w))

\* columns after the max-width clamp (lines 137-142).
Columns(n, target_w, target_h, max_width) ==
    LET ideal == IdealColumns(n, target_w, target_h)
    IN  IF ideal * target_w > max_width
        THEN Max(1, max_width \div target_w)
        ELSE ideal

\* rows = int(math.ceil(frame_count / columns))
Rows(n, columns) == (n + columns - 1) \div columns

PlanLayout(n, base_w, base_h, a) ==
    LET t    == TargetSize(base_w, base_h, a)
        cols == Columns(n, t[1], t[2], a.max_width)
    IN  [target_w |-> t[1], target_h |-> t[2], columns |-> cols,
         rows |-> Rows(n, cols)]

NoPlan == [target_w |-> 0, target_h |-> 0, columns |-> 0, rows |-> 0]

\* The manifest dictionary (lines 176-188).
BuildManifest(a, n, p, secs) ==
    [step |-> a.step, frameCount |-> n, frameWidth |-> p.target_w,
     frameHeight |-> p.target_h, columns |-> p.columns, rows |-> p.rows,
     sections |-> [i \in 1..Len(secs) |->
                     [name |-> secs[i].name,
                      displayName |-> display_name(secs[i].name),
                      startIndex |-> secs[i].startIndex,
                      frameCount |-> secs[i].frameCount]]]

NoManifest ==
    [step |-> 0, frameCount |-> 0, frameWidth |-> 0, frameHeight |-> 0,
     columns |-> 0, rows |-> 0, sections |-> <<>>]

(***************************************************************************)
(* Bounds and inputs                                                       *)
(***************************************************************************)

MaxFiles == 3        \* files in ./out
MaxAtlasWidth == 3   \* --max-width ranges over 0..MaxAtlasWidth
MaxTileWidth == 2    \* --tile-width ranges over 0..MaxTileWidth, or is absent
MaxBase == 2         \* width and height of the base frame range over 1..MaxBase

\* --step values tried: two valid ones and the two nearest invalid ones.
Steps == {0, 120, 180, 361}

JPG(stem) == stem \o DotJpg

\* File names that may be present in ./out.
OutPool ==
    { JPG(MY_FACE \o <<"_", "0">>),
      JPG(MY_FACE \o <<"_", "1", "2", "0">>),
      JPG(MY_FACE \o <<"_", "b", "_", "0">>),
      JPG(<<"z", "z", "z", "_", "1", "8", "0">>),
      JPG(<<"a", "_", "1", "2", "0">>),
      JPG(<<"a", "_", "0", "1", "2", "0">>),
      JPG(<<"a", "_", "x">>),
      JPG(<<"_", "0">>),
      JPG(<<"0">>) }

ArgSets ==
    [step : Steps, max_width : 0..MaxAtlasWidth,
     has_tile : BOOLEAN, tile_width : 0..MaxTileWidth]

\* argparse: tile_width is None unless --tile-width is given.
ArgsOK(a) == a.has_tile \/ a.tile_width = 0

ViewerStates == {[atlas |-> "none", manifest |-> "none"],
                 [atlas |-> "old", manifest |-> "old"]}

(***************************************************************************)
(* optimize.py main: the pack run                                          *)
(***************************************************************************)

\* A variant of the validation that forgets the --max-width check.
ValidArgsNoWidth(a) ==
    /\ ~(a.step <= 0 \/ a.step > 360)
    /\ ~(a.has_tile /\ a.tile_width <= 0)

\* The three checks of lines 26-34 all pass.
ValidArgs(a) ==
    /\ ~(a.step <= 0 \/ a.step > 360)
    /\ ~(a.max_width <= 0)
    /\ ~(a.has_tile /\ a.tile_width <= 0)

PackIdle ==
    /\ groups = <<>> /\ base = <<0, 0>> /\ flat = <<>> /\ sections = <<>>
    /\ warnings = <<>> /\ frameCount = 0 /\ plan = NoPlan
    /\ manifest = NoManifest /\ exitCode = -1 /\ err = "none"

GenIdle ==
    /\ inDir = {} /\ gpc = "off" /\ infiles = <<>> /\ gangles = <<>>
    /\ gi = 0 /\ gj = 0 /\ glog = <<>>

Init ==
    /\ pc = "start"
    /\ args \in {a \in ArgSets : ArgsOK(a)}
    /\ outDir \in {d \in SUBSET OutPool : Cardinality(d) <= MaxFiles}
    /\ viewer0 \in ViewerStates
    /\ viewer = viewer0
    /\ PackIdle
    /\ GenIdle

\* sys.exit(1), or an exception that ends the process.
Fail(why) ==
    /\ pc' = "exit"
    /\ exitCode' = 1
    /\ err' = why

GenVars == <<inDir, gpc, infiles, gangles, gi, gj, glog>>

\* Lines 26-34.
Validate ==
    /\ pc = "start"
    /\ IF ValidArgs(args)
       THEN pc' = "validated" /\ UNCHANGED <<exitCode, err>>
       ELSE Fail("config")
    /\ UNCHANGED <<args, outDir, viewer0, viewer, groups, base, flat, sections,
                   warnings, frameCount, plan, manifest>>
    /\ UNCHANGED GenVars

\* Lines 36-57.
Discover ==
    /\ pc = "validated"
    /\ LET g == DiscoverGroups(outDir, args.step)
       IN  /\ groups' = g
           /\ IF DOMAIN g = {}
              THEN Fail("noframes")
              ELSE pc' = "discovered" /\ UNCHANGED <<exitCode, err>>
    /\ UNCHANGED <<args, outDir, viewer0, viewer, base, flat, sections,
                   warnings, frameCount, plan, manifest>>
    /\ UNCHANGED GenVars

\* Lines 59-86: the base frame is found and read; its size comes from the file.
\* Every group holds at least one angle of the angle set, so the exit of
\* lines 83-85 is never taken.
LoadBase ==
    /\ pc = "discovered"
    /\ IF FirstPathIn(OrderedPrefixes(groups), Angles(args.step), groups) = <<>>
       THEN Fail("nobase") /\ UNCHANGED base
       ELSE /\ \E w \in 1..MaxBase, h \in 1..MaxBase : base' = <<w, h>>
            /\ pc' = "based"
            /\ UNCHANGED <<exitCode, err>>
    /\ UNCHANGED <<args, outDir, viewer0, viewer, groups, flat, sections,
                   warnings, frameCount, plan, manifest>>
    /\ UNCHANGED GenVars

\* Lines 88-108.  With a non-empty groups the exit of lines 106-108 is never
\* taken.
Collect ==
    /\ pc = "based"
    /\ LET c == Collected(groups, args.step)
       IN  /\ flat' = c.paths
           /\ sections' = c.sections
           /\ warnings' = c.warns
           /\ IF c.paths = <<>>
              THEN Fail("noframes")
              ELSE pc' = "collected" /\ UNCHANGED <<exitCode, err>>
    /\ UNCHANGED <<args, outDir, viewer0, viewer, groups, base,
                   frameCount, plan, manifest>>
    /\ UNCHANGED GenVars

\* Lines 112-154: every frame is read and the layout is computed.
Plan ==
    /\ pc = "collected"
    /\ frameCount' = Len(flat)
    /\ plan' = PlanLayout(Len(flat), base[1], base[2], args)
    /\ pc' = "planned"
    /\ UNCHANGED <<args, outDir, viewer0, viewer, groups, base, flat, sections,
                   warnings, manifest, exitCode, err>>
    /\ UNCHANGED GenVars

\* Image.open, load_frame or resize raises (lines 86, 112, 116, 148).
ImageFails ==
    /\ pc \in {"discovered", "collected"}
    /\ Fail("io")
    /\ UNCHANGED <<args, outDir, viewer0, viewer, groups, base, flat, sections,
                   warnings, frameCount, plan, manifest>>
    /\ UNCHANGED GenVars

\* Lines 156-166: the atlas is composed and saved.  An empty image cannot
\* be written as JPEG.
WriteAtlas ==
    /\ pc = "planned"
    /\ plan.target_h > 0
    /\ viewer' = [viewer EXCEPT !.atlas = "new"]
    /\ pc' = "atlas_written"
    /\ UNCHANGED <<args, outDir, viewer0, groups, base, flat, sections,
                   warnings, frameCount, plan, manifest, exitCode, err>>
    /\ UNCHANGED GenVars

\* mkdir or sprite.save raises: the file is untouched, or was opened and
\* left incomplete (removed again when this run created it).
WriteAtlasFails ==
    /\ pc = "planned"
    /\ \E left \in {viewer.atlas, IF viewer.atlas = "none" THEN "none" ELSE "partial"} :
           viewer' = [viewer EXCEPT !.atlas = left]
    /\ Fail("io")
    /\ UNCHANGED <<args, outDir, viewer0, groups, base, flat, sections,
                   warnings, frameCount, plan, manifest>>
    /\ UNCHANGED GenVars

\* Lines 168-194: the manifest is built and written, the run ends.
WriteManifest ==
    /\ pc = "atlas_written"
    /\ manifest' = BuildManifest(args, frameCount, plan, sections)
    /\ viewer' = [viewer EXCEPT !.manifest = "new"]
    /\ pc' = "done"
    /\ exitCode' = 0
    /\ UNCHANGED <<args, outDir, viewer0, groups, base, flat, sections,
                   warnings, frameCount, plan, err>>
    /\ UNCHANGED GenVars

\* write_text raises: the file is untouched, or was opened and left incomplete.
WriteManifestFails ==
    /\ pc = "atlas_written"
    /\ manifest' = BuildManifest(args, frameCount, plan, sections)
    /\ \E left \in {viewer.manifest, "partial"} :
           viewer' = [viewer EXCEPT !.manifest = left]
    /\ Fail("io")
    /\ UNCHANGED <<args, outDir, viewer0, groups, base, flat, sections,
                   warnings, frameCount, plan>>
    /\ UNCHANGED GenVars

Next ==
    \/ Validate
    \/ Discover
    \/ LoadBase
    \/ Collect
    \/ Plan
    \/ ImageFails
    \/ WriteAtlas
    \/ WriteAtlasFails
    \/ WriteManifest
    \/ WriteManifestFails

Spec == Init /\ [][Next]_vars

(***************************************************************************)
(* The layout plan on its own, over wider sizes                            *)
(***************************************************************************)

MaxFrames == 6       \* frame counts 1..MaxFrames
PlanMaxBase == 5     \* base width and height 1..PlanMaxBase
PlanMaxWidth == 5    \* --max-width and --tile-width 1..PlanMaxWidth

PlanArgs ==
    {a \in [step : {120}, max_width : 1..PlanMaxWidth,
            has_tile : BOOLEAN, tile_width : 0..PlanMaxWidth] :
        ArgsOK(a) /\ ValidArgs(a)}

PlanInit ==
    /\ pc = "collected"
    /\ args \in PlanArgs
    /\ base \in (1..PlanMaxBase) \X (1..PlanMaxBase)
    /\ frameCount \in 1..MaxFrames
    /\ outDir = {} /\ viewer0 = [atlas |-> "none", manifest |-> "none"]
    /\ viewer = viewer0
    /\ groups = <<>> /\ flat = <<>> /\ sections = <<>> /\ warnings = <<>>
    /\ plan = NoPlan /\ manifest = NoManifest /\ exitCode = -1 /\ err = "none"
    /\ GenIdle

\* Lines 119-154 applied to frameCount frames of the base size.
ApplyPlan ==
    /\ pc = "collected"
    /\ plan' = PlanLayout(frameCount, base[1], base[2], args)
    /\ pc' = "planned"
    /\ UNCHANGED <<args, outDir, viewer0, viewer, groups, base, flat, sections,
                   warnings, frameCount, manifest, exitCode, err>>
    /\ UNCHANGED GenVars

PlanNext == ApplyPlan

PlanSpec == PlanInit /\ [][PlanNext]_vars

(***************************************************************************)
(* main.py: generate_frames, then the packer's discovery ("all")           *)
(***************************************************************************)

MaxInputs == 2       \* files in ./in

\* --step values tried by the generator.
GenSteps == {0, 180, 360}

InPool ==
    { MY_FACE \o DotJpg,
      MY_FACE \o <<"_", "b", ".", "p", "n", "g">>,
      <<"a", "_", "0", ".", "j", "p", "e", "g">>,
      <<"z", ".", "p", "n", "g">>,
      <<"a", ".", "x">> }

\* p.suffix.lower() in {".jpg", ".jpeg", ".png"}
IsInput(f) ==
    Lower(Suffix(f)) \in {DotJpg, <<".", "j", "p", "e", "g">>, <<".", "p", "n", "g">>}

\* input_files, sorted by name (lines 70-71).
InputFiles(dir) == SortNames({f \in dir : IsInput(f)})

\* A variant of the frame name that joins prefix and angle with a dash.
FrameNameDash(prefix, deg) == prefix \o <<"-">> \o IntToStr(deg) \o DotJpg

\* fname = f"{prefix}_{deg}.jpg"
FrameName(prefix, deg) == prefix \o <<"_">> \o IntToStr(deg) \o DotJpg

\* The loop position after (i, j): the next angle, or the next input.
Advance(i, j, nAngles) == IF j < nAngles THEN <<i, j + 1>> ELSE <<i + 1, 1>>

\* A variant of the except clause that gives up on the remaining frames.
OnErrorAbort(i, j, nAngles, nInputs) == <<nInputs + 1, 1>>

\* except Exception: the error is printed and the loop goes on (lines 105-106).
OnError(i, j, nAngles, nInputs) == Advance(i, j, nAngles)

GenInit ==
    /\ gpc = "gstart"
    /\ args \in [step : GenSteps, max_width : {256}, has_tile : {FALSE}, tile_width : {0}]
    /\ inDir \in {d \in SUBSET InPool : Cardinality(d) <= MaxInputs}
    /\ outDir \in {{}, {FrameName(MY_FACE, 0)}}
    /\ infiles = <<>> /\ gangles = <<>>
    /\ gi = 0 /\ gj = 0 /\ glog = <<>>
    /\ pc = "off"
    /\ viewer0 = [atlas |-> "none", manifest |-> "none"]
    /\ viewer = viewer0
    /\ PackIdle

PackRest == <<pc, viewer0, viewer, base, flat, frameCount, plan, manifest>>

\* Lines 60-71: the step check and ensure_env.
GenStart ==
    /\ gpc = "gstart"
    /\ \E token \in BOOLEAN :
          IF args.step <= 0 \/ args.step > 360 \/ ~token \/ InputFiles(inDir) = <<>>
          THEN /\ gpc' = "gexit" /\ exitCode' = 1
               /\ UNCHANGED <<infiles, gangles, gi, gj>>
          ELSE /\ gpc' = "loop"
               /\ gangles' = Angles(args.step)
               /\ infiles' = InputFiles(inDir)
               /\ gi' = 1 /\ gj' = 1
               /\ UNCHANGED exitCode
    /\ UNCHANGED <<args, inDir, outDir, glog, groups, sections, warnings, err>>
    /\ UNCHANGED PackRest

AtFrame ==
    /\ gpc = "loop"
    /\ gi <= Len(infiles)

CurPrefix == Stem(infiles[gi])
CurDeg == gangles[gj]
CurTarget == FrameName(CurPrefix, CurDeg)

Logged(what) == Append(glog, [prefix |-> CurPrefix, deg |-> CurDeg, what |-> what])

GoTo(pos) == gi' = pos[1] /\ gj' = pos[2]

GenKeep == UNCHANGED <<args, inDir, gpc, infiles, gangles, groups, sections, warnings, exitCode, err>>

\* Lines 80-82: the frame exists already.
GenSkip ==
    /\ AtFrame
    /\ CurTarget \in outDir
    /\ glog' = Logged("skip")
    /\ GoTo(Advance(gi, gj, Len(gangles)))
    /\ UNCHANGED outDir
    /\ GenKeep /\ UNCHANGED PackRest

\* Lines 91-104: the frame is generated, fetched and saved.
GenOk ==
    /\ AtFrame
    /\ CurTarget \notin outDir
    /\ outDir' = outDir \cup {CurTarget}
    /\ glog' = Logged("ok")
    /\ GoTo(Advance(gi, gj, Len(gangles)))
    /\ GenKeep /\ UNCHANGED PackRest

\* Lines 100-101: the service returns nothing.
GenNoOutput ==
    /\ AtFrame
    /\ CurTarget \notin outDir
    /\ glog' = Logged("warn")
    /\ GoTo(Advance(gi, gj, Len(gangles)))
    /\ UNCHANGED outDir
    /\ GenKeep /\ UNCHANGED PackRest

\* Lines 91-106: the call, the fetch or the save raises.
GenRaises ==
    /\ AtFrame
    /\ CurTarget \notin outDir
    /\ \E stage \in {"call", "fetch", "save"} : glog' = Logged(stage)
    /\ GoTo(OnError(gi, gj, Len(gangles), Len(infiles)))
    /\ UNCHANGED outDir
    /\ GenKeep /\ UNCHANGED PackRest

\* Line 108: the loops are over.
GenFinish ==
    /\ gpc = "loop"
    /\ gi > Len(infiles)
    /\ gpc' = "gdone"
    /\ UNCHANGED <<args, inDir, outDir, infiles, gangles, gi, gj, glog, groups, sections, warnings,
                   exitCode, err>>
    /\ UNCHANGED PackRest

\* main.py lines 143-144, optimize.py lines 36-108: the packer reads ./out
\* with the same step.
GenPack ==
    /\ gpc = "gdone"
    /\ LET g == DiscoverGroups(outDir, args.step)
           c == Collected(g, args.step)
       IN  /\ groups' = g
           /\ IF DOMAIN g = {}
              THEN /\ gpc' = "gexit" /\ exitCode' = 1 /\ err' = "noframes"
                   /\ UNCHANGED <<sections, warnings>>
              ELSE /\ gpc' = "packed"
                   /\ sections' = c.sections
                   /\ warnings' = c.warns
                   /\ UNCHANGED <<exitCode, err>>
    /\ UNCHANGED <<args, inDir, outDir, infiles, gangles, gi, gj, glog>>
    /\ UNCHANGED PackRest

\* The steps of generate_frames itself.
GenLoop ==
    \/ GenStart
    \/ GenSkip
    \/ GenOk
    \/ GenNoOutput
    \/ GenRaises
    \/ GenFinish

GenNext ==
    \/ GenLoop
    \/ GenPack

\* Each call of the service returns or raises, so generate_frames keeps
\* stepping until its loops are over.
GenSpec == GenInit /\ [][GenNext]_vars /\ WF_vars(GenLoop)

(***************************************************************************)
(* Properties                                                              *)
(***************************************************************************)

AfterPlan == pc \in {"planned", "atlas_written", "done"}

AfterCollect == pc \in {"collected", "planned", "atlas_written", "done"}

BadConfig ==
    \/ args.step < 1 \/ args.step > 360
    \/ args.max_width <= 0
    \/ args.has_tile /\ args.tile_width <= 0

\* The (section, angle) pairs named by the files of ./out that are frames of
\* the angle set: "<prefix>_<angle>.jpg" with the angle a multiple of step
\* in [0, 360).
UsablePairs ==
    LET parsed == {ParseName(f) : f \in {g \in outDir : GlobJpg(g)}}
        good   == {r \in parsed : r.ok /\ r.angle \in 0..359 /\ r.angle % args.step = 0}
    IN  {<<r.prefix, r.angle>> : r \in good}

ExpectedAngles == {a \in 0..359 : a % args.step = 0}

Fatal == BadConfig \/ UsablePairs = {}

RECURSIVE SumCounts(_)
SumCounts(secs) ==
    IF secs = <<>> THEN 0 ELSE Head(secs).frameCount + SumCounts(Tail(secs))

Occurrences(seq, x) == Cardinality({i \in 1..Len(seq) : seq[i] = x})

\* C1: in every planned pack run columns * targetWidth <= maxAtlasWidth,
\* with and without the tile-width override.
C1_WidthBound ==
    AfterPlan => plan.columns * plan.target_w <= args.max_width

\* C2: for N >= 1 frames of a target size with positive width and height,
\* 1 <= columns <= N, rows = ceil(N / columns), columns*rows >= N and
\* columns*rows - N < columns.
C2_Grid ==
    (AfterPlan /\ plan.target_w > 0 /\ plan.target_h > 0) =>
        /\ 1 <= plan.columns /\ plan.columns <= frameCount
        /\ (plan.rows - 1) * plan.columns < frameCount
        /\ frameCount <= plan.rows * plan.columns
        /\ plan.columns * plan.rows - frameCount < plan.columns

C2_Witness ==
    /\ pc = "planned"
    /\ plan.target_h > 0
    /\ plan.columns >= 2
    /\ plan.rows >= 2
    /\ plan.columns * plan.rows > frameCount

\* C3: the manifest's sections partition the flat index range: the first
\* starts at 0, each next one starts where the previous one ends, and the
\* frame counts add up to manifest.frameCount.
C3_Partition ==
    pc = "done" =>
        LET secs == manifest.sections
        IN  /\ Len(secs) >= 1
            /\ secs[1].startIndex = 0
            /\ \A i \in 1..Len(secs) : secs[i].frameCount >= 1
            /\ \A i \in 1..(Len(secs) - 1) :
                   /\ secs[i + 1].startIndex = secs[i].startIndex + secs[i].frameCount
                   /\ secs[i + 1].startIndex > secs[i].startIndex
            /\ SumCounts(secs) = manifest.frameCount
            /\ manifest.frameCount = Len(flat)

C3_Witness ==
    /\ pc = "done"
    /\ Len(manifest.sections) >= 2
    /\ warnings # <<>>
    /\ manifest.sections[1].frameCount < Cardinality(ExpectedAngles)
    /\ \E i \in 1..Len(manifest.sections) : manifest.sections[i].frameCount >= 2

\* C4: when the run has ended, the viewer directory holds this run's atlas
\* exactly when it holds this run's manifest, and a failed write ends the
\* run with a non-zero status.
C4_AllOrNothing ==
    pc \in {"done", "exit"} =>
        /\ (viewer.atlas = "new") <=> (viewer.manifest = "new")
        /\ err = "io" => exitCode # 0

\* C5: on a fatal condition (bad step, max width or tile width, or no usable
\* frame) the run never gets past discovery, exits non-zero and leaves the
\* viewer directory as it was.
C5_FatalWritesNothing ==
    Fatal =>
        /\ pc \in {"start", "validated", "exit"}
        /\ viewer = viewer0
        /\ pc = "exit" => exitCode = 1 /\ err \in {"config", "noframes"}

C5_Witness ==
    /\ pc = "exit"
    /\ err = "noframes"
    /\ outDir # {}
    /\ \E f \in outDir : GlobJpg(f) /\ ParseName(f).ok
    /\ viewer0.atlas = "old"
    /\ viewer = viewer0

\* C6: missing frames never abort the run: each absent (section, angle) of
\* a discovered section is warned about once, a run that is not fatal ends
\* in failure only on an I/O error, and the manifest's frameCount of each
\* section is the number of its angles whose file is present.
C6_MissingFrames ==
    (pc # "start" /\ ~Fatal) =>
        LET U     == UsablePairs
            names == {x[1] : x \in U}
            E     == ExpectedAngles
        IN  /\ AfterCollect =>
                  /\ \A p \in names : \A a \in E :
                         Occurrences(warnings, <<p, a>>) = IF <<p, a>> \in U THEN 0 ELSE 1
                  /\ \A i \in 1..Len(warnings) :
                         warnings[i][1] \in names /\ warnings[i][2] \in E
            /\ pc = "exit" => err = "io"
            /\ pc = "done" =>
                  /\ exitCode = 0
                  /\ \A p \in names :
                         Cardinality({i \in 1..Len(manifest.sections) :
                             /\ manifest.sections[i].name = p
                             /\ manifest.sections[i].frameCount =
                                    Cardinality({a \in E : <<p, a>> \in U})}) = 1

C6_Witness ==
    /\ pc = "done"
    /\ exitCode = 0
    /\ args.step = 120
    /\ warnings = << <<MY_FACE, 240>> >>
    /\ manifest.sections[1].frameCount = 2

\* The ordering policy: primary first, its sub-labelled sections next, the
\* others last, each class in code point order of the full name.
PolicyRank(p) ==
    IF p = MY_FACE THEN 0
    ELSE IF Len(p) > Len(MY_FACE) /\ SubSeq(p, 1, Len(MY_FACE) + 1) = MY_FACE \o <<"_">>
         THEN 1
    ELSE 2

PolicyBefore(p, q) ==
    \/ PolicyRank(p) < PolicyRank(q)
    \/ PolicyRank(p) = PolicyRank(q) /\ StrLess(p, q)

\* C7: sections come out in policy order, the manifest lists them in that
\* order, and inside a section the frames are in strictly ascending angle.
C7_Order ==
    AfterCollect =>
        /\ \A i, j \in 1..Len(sections) :
               i < j => PolicyBefore(sections[i].name, sections[j].name)
        /\ {sections[i].name : i \in 1..Len(sections)} = {x[1] : x \in UsablePairs}
        /\ \A i \in 1..Len(sections) :
               \A k \in 1..sections[i].frameCount :
                   /\ ParseName(flat[sections[i].startIndex + k]).prefix = sections[i].name
                   /\ k > 1 =>
                          ParseName(flat[sections[i].startIndex + k - 1]).angle
                              < ParseName(flat[sections[i].startIndex + k]).angle
        /\ pc = "done" =>
               /\ Len(manifest.sections) = Len(sections)
               /\ \A i \in 1..Len(sections) :
                      manifest.sections[i].name = sections[i].name

C7_Witness ==
    /\ pc = "done"
    /\ Len(manifest.sections) = 3
    /\ manifest.sections[1].name = MY_FACE
    /\ manifest.sections[2].name = MY_FACE \o <<"_", "b">>
    /\ manifest.sections[3].name = <<"a">>

\* C8: every frame admitted by discovery has an angle that is a multiple of
\* step in [0, 360) and a non-empty section name; other file names are
\* ignored and each (section, angle) keeps one file.
C8_FrameInvariant ==
    pc \in {"discovered", "based", "collected", "planned", "atlas_written", "done"} =>
        \A p \in DOMAIN groups :
            /\ p # <<>>
            /\ \A a \in DOMAIN groups[p] :
                   /\ a \in 0..359
                   /\ a % args.step = 0
                   /\ groups[p][a] \in outDir
                   /\ Contains(Stem(groups[p][a]), "_")

\* The (prefix, angle) pairs of the batch, in loop order.
AllPairs ==
    LET ins == infiles
        as  == gangles
    IN  [k \in 1..(Len(ins) * Len(as)) |->
            <<Stem(ins[((k - 1) \div Len(as)) + 1]), as[((k - 1) % Len(as)) + 1]>>]

VisitedPairs == [k \in 1..Len(glog) |-> <<glog[k].prefix, glog[k].deg>>]

Failures == {"warn", "call", "fetch", "save"}

\* C9: a frame whose generation fails is logged and the loop still visits
\* every later (input, angle) pair in order and finishes the batch.
C9_Isolation ==
    /\ [](gpc = "loop" => /\ Len(glog) <= Len(AllPairs)
                          /\ VisitedPairs = SubSeq(AllPairs, 1, Len(glog)))
    /\ [](gpc \in {"gdone", "packed"} => VisitedPairs = AllPairs)
    /\ (gpc = "loop") ~> (gpc = "gdone")

C9_Witness ==
    /\ gpc = "gdone"
    /\ \E k \in 1..(Len(glog) - 1) : glog[k].what \in Failures /\ glog[k + 1].what = "ok"
    /\ \E k \in 1..Len(glog) : glog[k].what = "save"

\* C10: once the packer has read ./out with the generator's step, each
\* frame file the generator wrote is read back as (input stem, angle), and a
\* stem whose frames all exist is packed as a section with one frame per
\* angle and no warning.
C10_RoundTrip ==
    (gpc = "packed" \/ (gpc = "gexit" /\ err = "noframes")) =>
        /\ \A k \in 1..Len(glog) :
               glog[k].what = "ok" =>
                   /\ glog[k].prefix \in DOMAIN groups
                   /\ glog[k].deg \in DOMAIN groups[glog[k].prefix]
                   /\ groups[glog[k].prefix][glog[k].deg] \in outDir
                   /\ ParseName(groups[glog[k].prefix][glog[k].deg]) =
                          [ok |-> TRUE, prefix |-> glog[k].prefix, angle |-> glog[k].deg]
        /\ \A p \in {glog[k].prefix : k \in 1..Len(glog)} :
               (\A k \in 1..Len(glog) :
                    glog[k].prefix = p => glog[k].what \in {"ok", "skip"}) =>
                   /\ \E i \in 1..Len(sections) :
                          /\ sections[i].name = p
                          /\ sections[i].frameCount = Len(gangles)
                   /\ \A i \in 1..Len(warnings) : warnings[i][1] # p

C10_Witness ==
    /\ gpc = "packed"
    /\ args.step = 180
    /\ \A k \in 1..Len(glog) : glog[k].what = "ok"
    /\ \E i \in 1..Len(sections) :
           sections[i].name = <<"a", "_", "0">> /\ sections[i].frameCount = 2
    /\ \E i \in 1..Len(sections) : sections[i].name = MY_FACE \o <<"_", "b">>

====
